---- MODULE Spec2Model ----
(***************************************************************************)
(* Model of k8s-blue-green-jenkins/orchestrator.py: the phase sequence of  *)
(* main(), the waits of setup_infrastructure, configure_jenkins and        *)
(* wait_for_build, the two release stages of orchestrate_blue_green_flow,  *)
(* and the Jenkins queue/builds the orchestrator observes.                 *)
(***************************************************************************)
EXTENDS Integers, Sequences, FiniteSets, TLC

VARIABLES
    cleanup_only,   \* args.cleanup_only
    skip_setup,     \* args.skip_setup
    missing,        \* the external tool that is not installed, or "none"
    pc,             \* position of the single thread of control
    cmd,            \* index of the next checked command of setup_infrastructure
    i,              \* loop index of the connection retry loop in configure_jenkins
    elapsed,        \* seconds slept since start_time in the current bounded wait
    cycles,         \* sleeps made in the current unbounded wait (saturating)
    pod_name,       \* setup_infrastructure: last pod name read ("" or "pod")
    pod_is_ready,   \* setup_infrastructure: pod_is_ready
    stage,          \* "none", "blue" or "green": the stage of the flow
    queue_item,     \* ticket passed to wait_for_build (0: none)
    build_number,   \* build number the current loop polls (0: none)
    build_info,     \* last answer of get_build_info
    content,        \* text of app/app.js as last written (<<>>: not written)
    exit_code,      \* exit status the process ends with
    queue,          \* Jenkins: state of each queue item, by ticket
    builds,         \* Jenkins: build records of the job, by build number
    job_exists,     \* Jenkins: the pipeline job exists
    release,        \* release state reached (state, activeColor, labels)
    entered,        \* phases entered so far
    failure,        \* cause of the fatal failure, or "none"
    prompts,        \* operator prompts answered so far, in order
    teardowns,      \* number of runs of the cluster deletion command
    job_configs,    \* number of create_job / reconfig_job calls
    rewrites,       \* number of rewrites of app/app.js
    resolved,       \* build numbers whose input gate was resolved, in order
    started,        \* tickets the start loop of wait_for_build resolved, in order
    returned,       \* tickets wait_for_build returned for, in order
    answer,         \* the operator's reply to the cleanup prompt ("" before it)
    delete_rc       \* return code of minikube delete (-1: it has not run)

vars == << cleanup_only, skip_setup, missing, pc, cmd, i, elapsed, cycles,
           pod_name, pod_is_ready, stage, queue_item, build_number,
           build_info, content, exit_code, queue, builds, job_exists,
           release, entered, failure, prompts, teardowns, job_configs,
           rewrites, resolved, started, returned, answer, delete_rc >>

\* ------------------------------------------------------------------ bounds
MaxPre == 1        \* builds the job already has when the run starts
MaxPauses == 1     \* input requests one build may raise
MaxCycles == 3     \* cap of the sleep counter of the unbounded waits

\* -------------------------------------------------------- program constants
PodTimeout == 420
PodInterval == 10
StartTimeout == 300
StartInterval == 5
NotFoundDelay == 2
max_retries == 10
ConnectDelay == 10
ApprovalDelay == 30

Tools == {"minikube", "kubectl", "helm"}

\* ------------------------------------------------------------- run_command
\* Outcome of run_command(command, check): "exit" is sys.exit(1), "ok" a
\* normal return.  A missing executable exits whatever check is; a non-zero
\* return code exits only when check is set.
run_command(tool, check, rc) ==
    IF tool = missing THEN "exit"
    ELSE IF check /\ rc # 0 THEN "exit"
    ELSE "ok"

\* What run_command reports before sys.exit(1): the executable was not
\* found, or the command returned non-zero.
Cause(tool) ==
    IF tool = missing THEN "missing tool" ELSE "command failed"

\* Python's handling of what leaves the try block of main(): the finally
\* clause runs after a normal return, after SystemExit (sys.exit deep in a
\* phase) and after any Exception (whose handler calls sys.exit(1)).
\* (mutant: sys.exit bypasses the finally clause)
after_try_exit_skips_finally(outcome) ==
    IF outcome = "SystemExit" THEN "exited" ELSE "finally"

after_try(outcome) ==
    "finally"

\* (mutant: the exception handler of main() does not call sys.exit(1))
exit_status_handler_returns(outcome) ==
    IF outcome = "SystemExit" THEN 1 ELSE 0

\* Exit status the process ends with for each way of leaving the try block.
exit_status(outcome) ==
    IF outcome = "return" THEN 0 ELSE 1

\* (mutant: cleanup() runs whatever the operator replies)
confirmed_whatever(reply) ==
    TRUE

\* The test of the finally clause on the operator's reply (lower-cased).
confirmed(reply) ==
    reply = "y"

\* (mutant: skip_setup is not consulted)
main_first_always_setup(co, ss) ==
    IF co THEN "cleanup_only" ELSE "setup_cmd"

\* (mutant: cleanup() is not followed by sys.exit(0))
main_first_cleanup_falls_through(co, ss) ==
    IF ~ss THEN "setup_cmd" ELSE "configure_url"

\* First step of main() after argument parsing.
main_first(co, ss) ==
    IF co THEN "cleanup_only"
    ELSE IF ~ss THEN "setup_cmd"
    ELSE "configure_url"

\* The five checked commands of setup_infrastructure, by the tool they run.
SetupCommands ==
    << "minikube", "kubectl", "helm", "helm", "helm" >>

\* Loop conditions of the two bounded waits.
pod_wait_open(e) ==
    e < PodTimeout

start_wait_open(e) ==
    e < StartTimeout

\* (mutant: the check after the loop is missing)
after_pod_wait_unchecked(ready) ==
    "return"

\* What follows the readiness loop of setup_infrastructure.
after_pod_wait(ready) ==
    IF ~ready THEN "exit" ELSE "return"

\* What follows the start loop of wait_for_build.
after_start_wait(number) ==
    IF number = 0 THEN "exit" ELSE "running"

\* (mutant: the completion loop does not wait)
still_building_never(info) ==
    FALSE

\* The test  get_build_info(job, number)['building'].
still_building(info) ==
    info.building

\* (mutant: any running build is taken to be paused)
input_action_any(info) ==
    TRUE

\* An InputStepAction is among the 'actions' of the answer.
input_action(info) ==
    info.input

\* (mutant: the final result is not checked)
after_build_unchecked(result) ==
    "return"

\* What wait_for_build does with the final result of the build.
after_build(result) ==
    IF result # "SUCCESS" THEN "exit" ELSE "return"

\* Where wait_for_build returns to, by stage.
wfb_return(st) ==
    IF st = "blue" THEN "blue_done" ELSE "green_done"

\* (mutant: the push acknowledgment is not awaited)
after_rewrite_no_prompt ==
    "green_trigger"

\* The step of orchestrate_blue_green_flow that follows the rewrite.
after_rewrite ==
    "push"

\* (mutant: the loop gives up one attempt early)
connect_retry_one_less(k) ==
    k < max_retries - 2

\* The connection retry loop: retry after a failed attempt i, or give up.
connect_retry(k) ==
    k < max_retries - 1

\* ------------------------------------------------------------ the artifact
Marker == "const APP_VERSION = "
Quote == "\""
Semi == ";"
NL == "\n"
BlueLabel == "1.0 (BLUE)"
GreenLabel == "2.0 (GREEN)"

\* The replacement string of the re.sub call.
Replacement ==
    << Marker, Quote, GreenLabel, Quote, Semi >>

\* End of the match of  const APP_VERSION = ".*"  that starts at s, or 0:
\* the last quote of the line ('.' matches no newline, '*' is greedy).
MatchEnd(text, s) ==
    IF s + 2 > Len(text) \/ text[s] # Marker \/ text[s + 1] # Quote THEN 0
    ELSE LET ends == { e \in (s + 2)..Len(text) :
                          /\ text[e] = Quote
                          /\ \A k \in (s + 2)..(e - 1) : text[k] # NL }
         IN IF ends = {} THEN 0
            ELSE CHOOSE e \in ends : \A f \in ends : f <= e

RECURSIVE SubFrom(_, _)
SubFrom(text, p) ==
    IF p > Len(text) THEN << >>
    ELSE LET e == MatchEnd(text, p)
         IN IF e # 0 THEN Replacement \o SubFrom(text, e + 1)
            ELSE << text[p] >> \o SubFrom(text, p + 1)

\* re.sub(r'const APP_VERSION = ".*"', 'const APP_VERSION = "2.0 (GREEN)";', text)
re_sub(text) ==
    SubFrom(text, 1)

\* The version label the artifact declares ("" when it has no marker line).
LabelOf(text) ==
    LET starts == { s \in 1..Len(text) :
                      /\ s + 3 <= Len(text)
                      /\ text[s] = Marker /\ text[s + 1] = Quote
                      /\ text[s + 3] = Quote }
    IN IF starts = {} THEN ""
       ELSE text[(CHOOSE s \in starts : \A t \in starts : s <= t) + 2]

\* Texts of app/app.js the run may find.
Artifacts ==
    { << Marker, Quote, BlueLabel, Quote, Semi, NL >>,
      << Marker, Quote, BlueLabel, Quote, NL >>,
      << Marker, Quote, BlueLabel, Quote, Semi, "//", Quote, "x", Quote, NL >> }

\* ----------------------------------------------------------------- Jenkins
Terminal == {"SUCCESS", "FAILURE"}

\* get_build_info(job, number): the fields of the answer the code reads.
get_build_info(b) ==
    [ building |-> builds[b].status \in {"RUNNING", "PAUSED"},
      input    |-> builds[b].status = "PAUSED",
      result   |-> IF builds[b].status \in Terminal THEN builds[b].status
                   ELSE "None" ]

NoInfo == [ building |-> FALSE, input |-> FALSE, result |-> "None" ]

\* get_job_info(job)['lastBuild']['number'], 0 when lastBuild is None.
last_build_number ==
    Len(builds)

\* The build a queue item became ('executable'), 0 while it has none.
executable(t) ==
    IF \E b \in 1..Len(builds) : builds[b].ticket = t
    THEN CHOOSE b \in 1..Len(builds) : builds[b].ticket = t
    ELSE 0

\* get_queue_item(ticket): 404 (NotFoundException), an item with its
\* 'executable', or an item without one.
get_queue_item(t) ==
    IF ~queue[t].found THEN "NotFound"
    ELSE IF queue[t].at = "LEFT" THEN "executable"
    ELSE "queued"

PreBuilds ==
    UNION { [ 1..n -> { [ status |-> r, ticket |-> 0, pauses |-> 0 ] : r \in Terminal } ]
            : n \in 0..MaxPre }

\* ------------------------------------------------------------------- state
argVars == << cleanup_only, skip_setup, missing >>
setupVars == << cmd, pod_name, pod_is_ready >>
waitVars == << elapsed, cycles >>
flowVars == << stage, queue_item, build_number, build_info >>
jenkinsVars == << queue, builds >>
ghostVars == << prompts, teardowns, job_configs, rewrites, resolved >>
logVars == << started, returned, answer, delete_rc >>

Uninitialized ==
    [ state |-> "Uninitialized", activeColor |-> "none",
      blueVersionLabel |-> "", greenVersionLabel |-> "" ]

Init ==
    /\ cleanup_only \in BOOLEAN
    /\ skip_setup \in BOOLEAN
    /\ missing \in Tools \cup {"none"}
    /\ pc = "main"
    /\ cmd = 1
    /\ i = 0
    /\ elapsed = 0
    /\ cycles = 0
    /\ pod_name = ""
    /\ pod_is_ready = FALSE
    /\ stage = "none"
    /\ queue_item = 0
    /\ build_number = 0
    /\ build_info = NoInfo
    /\ content = << >>
    /\ exit_code = 0
    /\ queue = << >>
    /\ builds \in PreBuilds
    /\ job_exists = (Len(builds) > 0)
    /\ release = Uninitialized
    /\ entered = {}
    /\ failure = "none"
    /\ prompts = << >>
    /\ teardowns = 0
    /\ job_configs = 0
    /\ rewrites = 0
    /\ resolved = << >>
    /\ started = << >>
    /\ returned = << >>
    /\ answer = ""
    /\ delete_rc = -1

\* Leaving the try block of main() by sys.exit(1) or by an exception.
Abort(outcome, cause) ==
    /\ pc' = after_try(outcome)
    /\ exit_code' = exit_status(outcome)
    /\ failure' = cause

\* -------------------------------------------------------------------- main
Main ==
    /\ pc = "main"
    /\ pc' = main_first(cleanup_only, skip_setup)
    /\ entered' = IF pc' = "setup_cmd" THEN entered \cup {"setup"}
                  ELSE IF pc' = "configure_url" THEN entered \cup {"configure"}
                  ELSE entered \cup {"cleanup"}
    /\ UNCHANGED << argVars, logVars, setupVars, waitVars, flowVars, jenkinsVars,
                    ghostVars, i, content, exit_code, job_exists, release,
                    failure >>

\* cleanup(): minikube delete with check=False; only a missing executable
\* ends the process from here.
CleanupOnly ==
    /\ pc = "cleanup_only"
    /\ \E rc \in {0, 1} :
         IF run_command("minikube", FALSE, rc) = "exit"
         THEN /\ exit_code' = 1
              /\ failure' = "missing tool"
              /\ teardowns' = teardowns
              /\ delete_rc' = delete_rc
         ELSE /\ exit_code' = 0
              /\ failure' = failure
              /\ teardowns' = teardowns + 1
              /\ delete_rc' = rc
    /\ pc' = "exited"
    /\ UNCHANGED << argVars, started, returned, answer, setupVars, waitVars, flowVars, jenkinsVars, i,
                    content, job_exists, release, entered, prompts,
                    job_configs, rewrites, resolved >>

\* The finally clause of main(): the cleanup prompt, then cleanup() on 'y'.
Finally ==
    /\ pc = "finally"
    /\ prompts' = Append(prompts, "cleanup")
    /\ \E reply \in {"y", "n"}, rc \in {0, 1} :
         /\ answer' = reply
         /\ IF confirmed(reply)
            THEN /\ entered' = entered \cup {"cleanup"}
                 /\ IF run_command("minikube", FALSE, rc) = "exit"
                    THEN /\ exit_code' = 1
                         /\ teardowns' = teardowns
                         /\ delete_rc' = delete_rc
                    ELSE /\ exit_code' = exit_code
                         /\ teardowns' = teardowns + 1
                         /\ delete_rc' = rc
            ELSE UNCHANGED << entered, exit_code, teardowns, delete_rc >>
    /\ pc' = "exited"
    /\ UNCHANGED << argVars, started, returned, setupVars, waitVars, flowVars, jenkinsVars, i,
                    content, job_exists, release, failure, job_configs,
                    rewrites, resolved >>

\* ---------------------------------------------------- setup_infrastructure
\* minikube start, kubectl apply, helm repo add, helm repo update, helm
\* install: each a checked command.
Setup_Command ==
    /\ pc = "setup_cmd"
    /\ \E rc \in {0, 1} :
         IF run_command(SetupCommands[cmd], TRUE, rc) = "exit"
         THEN /\ Abort("SystemExit", Cause(SetupCommands[cmd]))
              /\ cmd' = cmd
         ELSE /\ cmd' = cmd + 1
              /\ pc' = IF cmd = Len(SetupCommands) THEN "setup_service"
                       ELSE "setup_cmd"
              /\ UNCHANGED << exit_code, failure >>
    /\ UNCHANGED << argVars, logVars, pod_name, pod_is_ready, waitVars, flowVars,
                    jenkinsVars, ghostVars, i, content, job_exists, release,
                    entered >>

\* The service type probe (check=False) and the patch to NodePort (checked).
Setup_ServiceType ==
    /\ pc = "setup_service"
    /\ \E service_type \in {"ClusterIP", "NodePort", ""}, rc \in {0, 1} :
         IF run_command("kubectl", FALSE, rc) = "exit"
         THEN Abort("SystemExit", Cause("kubectl"))
         ELSE IF service_type = "ClusterIP"
                 /\ run_command("kubectl", TRUE, rc) = "exit"
         THEN Abort("SystemExit", Cause("kubectl"))
         ELSE /\ pc' = "setup_poll"
              /\ UNCHANGED << exit_code, failure >>
    /\ elapsed' = 0
    /\ UNCHANGED << argVars, logVars, setupVars, cycles, flowVars, jenkinsVars,
                    ghostVars, i, content, job_exists, release, entered >>

\* One iteration of the readiness loop: pod name, readiness, sleep(10).
Setup_Poll ==
    /\ pc = "setup_poll"
    /\ pod_wait_open(elapsed)
    /\ \E seen \in {"absent", "pending", "ready"} :
         IF run_command("kubectl", FALSE, 0) = "exit"
         THEN /\ Abort("SystemExit", Cause("kubectl"))
              /\ UNCHANGED << pod_name, pod_is_ready, elapsed, entered >>
         ELSE IF seen = "ready"
         THEN /\ pod_name' = "pod"
              /\ pod_is_ready' = TRUE
              /\ pc' = "configure_url"
              /\ entered' = entered \cup {"configure"}
              /\ UNCHANGED << elapsed, exit_code, failure >>
         ELSE /\ pod_name' = IF seen = "absent" THEN "" ELSE "pod"
              /\ elapsed' = elapsed + PodInterval
              /\ UNCHANGED << pc, pod_is_ready, exit_code, failure, entered >>
    /\ UNCHANGED << argVars, logVars, cmd, cycles, flowVars, jenkinsVars, ghostVars,
                    i, content, job_exists, release >>

\* The loop condition failed: the diagnostics, then sys.exit(1).
Setup_Timeout ==
    /\ pc = "setup_poll"
    /\ ~pod_wait_open(elapsed)
    /\ IF after_pod_wait(pod_is_ready) = "exit"
       THEN /\ Abort("SystemExit", "readiness timeout")
            /\ UNCHANGED entered
       ELSE /\ pc' = "configure_url"
            /\ entered' = entered \cup {"configure"}
            /\ UNCHANGED << exit_code, failure >>
    /\ UNCHANGED << argVars, logVars, setupVars, waitVars, flowVars, jenkinsVars,
                    ghostVars, i, content, job_exists, release >>

\* ------------------------------------------------------- configure_jenkins
\* minikube ip and the NodePort (checked commands; an empty answer is a
\* ValueError, handled by sys.exit(1)), then the admin secret (a checked
\* command; base64.b64decode may raise).
Configure_Url ==
    /\ pc = "configure_url"
    /\ \E rc_ip \in {0, 1}, rc_port \in {0, 1}, rc_secret \in {0, 1},
          no_ip \in BOOLEAN, no_port \in BOOLEAN, bad_secret \in BOOLEAN :
         IF run_command("minikube", TRUE, rc_ip) = "exit"
         THEN Abort("SystemExit", Cause("minikube"))
         ELSE IF no_ip
         THEN Abort("SystemExit", "configuration error")
         ELSE IF run_command("kubectl", TRUE, rc_port) = "exit"
         THEN Abort("SystemExit", Cause("kubectl"))
         ELSE IF no_port
         THEN Abort("SystemExit", "configuration error")
         ELSE IF run_command("kubectl", TRUE, rc_secret) = "exit"
         THEN Abort("SystemExit", Cause("kubectl"))
         ELSE IF bad_secret
         THEN Abort("Exception", "exception")
         ELSE /\ pc' = "configure_connect"
              /\ UNCHANGED << exit_code, failure >>
    /\ i' = 0
    /\ elapsed' = 0
    /\ UNCHANGED << argVars, logVars, setupVars, cycles, flowVars, jenkinsVars,
                    ghostVars, content, job_exists, release, entered >>

\* One attempt of the connection retry loop: get_version answers (break),
\* or it raises and the loop sleeps 10s and retries, or gives up.
Configure_Connect ==
    /\ pc = "configure_connect"
    /\ \E connected \in BOOLEAN :
         IF connected
         THEN /\ pc' = "configure_job"
              /\ UNCHANGED << i, elapsed, exit_code, failure >>
         ELSE IF connect_retry(i)
         THEN /\ i' = i + 1
              /\ elapsed' = elapsed + ConnectDelay
              /\ UNCHANGED << pc, exit_code, failure >>
         ELSE /\ Abort("SystemExit", "jenkins connection")
              /\ UNCHANGED << i, elapsed >>
    /\ UNCHANGED << argVars, logVars, setupVars, cycles, flowVars, jenkinsVars,
                    ghostVars, content, job_exists, release, entered >>

\* The job template, then reconfig_job or create_job.
Configure_Job ==
    /\ pc = "configure_job"
    /\ \E fault \in BOOLEAN :
         IF fault
         THEN /\ Abort("Exception", "exception")
              /\ UNCHANGED << job_configs, job_exists, entered >>
         ELSE /\ job_configs' = job_configs + 1
              /\ job_exists' = TRUE
              /\ pc' = "blue_trigger"
              /\ entered' = entered \cup {"orchestrate"}
              /\ UNCHANGED << exit_code, failure >>
    /\ i' = 0
    /\ elapsed' = 0
    /\ UNCHANGED << argVars, logVars, setupVars, cycles, flowVars, jenkinsVars,
                    prompts, teardowns, rewrites, resolved, content,
                    release >>

\* ---------------------------------------------------------- wait_for_build
Bump(n) ==
    IF n < MaxCycles THEN n + 1 ELSE n

\* server.build_job: a new queue item; then wait_for_build is entered (blue)
\* or the approval wait is (green).
Trigger(st, next) ==
    /\ \E fault \in BOOLEAN :
         IF fault
         THEN /\ Abort("Exception", "exception")
              /\ UNCHANGED << queue, queue_item, stage >>
         ELSE /\ queue' = Append(queue, [ at |-> "WAITING", found |-> TRUE ])
              /\ queue_item' = Len(queue) + 1
              /\ stage' = st
              /\ pc' = next
              /\ UNCHANGED << exit_code, failure >>
    /\ elapsed' = 0
    /\ cycles' = 0
    /\ build_number' = 0
    /\ build_info' = NoInfo
    /\ UNCHANGED << argVars, logVars, setupVars, builds, ghostVars, i, content,
                    job_exists, release, entered >>

Blue_Trigger ==
    /\ pc = "blue_trigger"
    /\ Trigger("blue", "wfb_start")

\* One iteration of the start loop: the queue item, the latest-build
\* fallback when the item is not found, sleep(5).
Wfb_Start ==
    /\ pc = "wfb_start"
    /\ start_wait_open(elapsed)
    /\ \E fault \in BOOLEAN :
         IF fault
         THEN /\ Abort("Exception", "exception")
              /\ elapsed' = 0
              /\ UNCHANGED << build_number, started >>
         ELSE IF get_queue_item(queue_item) = "executable"
         THEN /\ build_number' = executable(queue_item)
              /\ started' = Append(started, queue_item)
              /\ pc' = "wfb_running"
              /\ elapsed' = 0
              /\ UNCHANGED << exit_code, failure >>
         ELSE IF get_queue_item(queue_item) = "NotFound"
                 /\ last_build_number # 0
         THEN /\ build_number' = last_build_number
              /\ started' = Append(started, queue_item)
              /\ pc' = "wfb_running"
              /\ elapsed' = 0
              /\ UNCHANGED << exit_code, failure >>
         ELSE /\ elapsed' = IF get_queue_item(queue_item) = "NotFound"
                            THEN elapsed + NotFoundDelay + StartInterval
                            ELSE elapsed + StartInterval
              /\ UNCHANGED << pc, build_number, started, exit_code, failure >>
    /\ UNCHANGED << argVars, returned, answer, delete_rc, setupVars, cycles, stage, queue_item, build_info,
                    jenkinsVars, ghostVars, i, content, job_exists, release,
                    entered >>

\* The start loop ended by its condition: no build, sys.exit(1).
Wfb_StartTimeout ==
    /\ pc = "wfb_start"
    /\ ~start_wait_open(elapsed)
    /\ IF after_start_wait(build_number) = "exit"
       THEN Abort("SystemExit", "start timeout")
       ELSE /\ pc' = "wfb_running"
            /\ UNCHANGED << exit_code, failure >>
    /\ UNCHANGED << argVars, logVars, setupVars, waitVars, flowVars, jenkinsVars,
                    ghostVars, i, content, job_exists, release, entered >>

\* One poll of the completion loop: get_build_info raises (the build record
\* is not found), the build is still building (sleep next), or its final
\* result decides.
Wfb_Running ==
    /\ pc = "wfb_running"
    /\ \E fault \in BOOLEAN :
         LET info == get_build_info(build_number) IN
         IF fault \/ build_number = 0
         THEN /\ Abort("Exception", "build not found")
              /\ cycles' = 0
              /\ build_info' = NoInfo
              /\ build_number' = 0
              /\ UNCHANGED returned
         ELSE IF still_building(info)
         THEN /\ build_info' = info
              /\ pc' = "wfb_sleep"
              /\ UNCHANGED << cycles, build_number, returned, exit_code,
                              failure >>
         ELSE /\ build_info' = NoInfo
              /\ cycles' = 0
              /\ build_number' = 0
              /\ IF after_build(info.result) = "exit"
                 THEN /\ Abort("SystemExit", "build failed")
                      /\ UNCHANGED returned
                 ELSE /\ pc' = wfb_return(stage)
                      /\ returned' = Append(returned, queue_item)
                      /\ UNCHANGED << exit_code, failure >>
    /\ UNCHANGED << argVars, started, answer, delete_rc, setupVars, elapsed, stage, queue_item,
                    jenkinsVars, ghostVars, i, content, job_exists, release,
                    entered >>

\* sleep(10) of the completion loop, then the loop condition is read again.
Wfb_Sleep ==
    /\ pc = "wfb_sleep"
    /\ pc' = "wfb_running"
    /\ cycles' = Bump(cycles)
    /\ UNCHANGED << argVars, logVars, setupVars, elapsed, flowVars, jenkinsVars,
                    ghostVars, i, content, exit_code, job_exists, release,
                    entered, failure >>

\* --------------------------------------------- orchestrate_blue_green_flow
\* The active service URL (a checked command); the Blue stage is complete.
Blue_Complete ==
    /\ pc = "blue_done"
    /\ \E rc \in {0, 1} :
         IF run_command("minikube", TRUE, rc) = "exit"
         THEN /\ Abort("SystemExit", Cause("minikube"))
              /\ UNCHANGED release
         ELSE /\ release' = [ release EXCEPT !.state = "BlueDeployed",
                                             !.activeColor = "Blue",
                                             !.blueVersionLabel = BlueLabel ]
              /\ pc' = "rewrite"
              /\ UNCHANGED << exit_code, failure >>
    /\ UNCHANGED << argVars, logVars, setupVars, waitVars, flowVars, jenkinsVars,
                    ghostVars, i, content, job_exists, entered >>

\* app/app.js is read, rewritten by re.sub and written back.
Rewrite ==
    /\ pc = "rewrite"
    /\ \E text \in Artifacts :
         /\ content' = re_sub(text)
         /\ release' = [ release EXCEPT !.state = "GreenPending",
                                        !.greenVersionLabel = LabelOf(content') ]
    /\ rewrites' = rewrites + 1
    /\ pc' = after_rewrite
    /\ UNCHANGED << argVars, logVars, setupVars, waitVars, flowVars, jenkinsVars,
                    prompts, teardowns, job_configs, resolved, i, exit_code,
                    job_exists, entered, failure >>

\* input("Press Enter after you have pushed the change to Git...")
Push_Ack ==
    /\ pc = "push"
    /\ prompts' = Append(prompts, "push")
    /\ pc' = "green_trigger"
    /\ UNCHANGED << argVars, logVars, setupVars, waitVars, flowVars, jenkinsVars,
                    teardowns, job_configs, rewrites, resolved, i, content,
                    exit_code, job_exists, release, entered, failure >>

Green_Trigger ==
    /\ pc = "green_trigger"
    /\ Trigger("green", "green_sample")

\* sleep(30), then the number of the job's last build.
Green_Sample ==
    /\ pc = "green_sample"
    /\ elapsed' = elapsed + ApprovalDelay
    /\ IF last_build_number = 0
       THEN /\ Abort("Exception", "exception")
            /\ UNCHANGED build_number
       ELSE /\ build_number' = last_build_number
            /\ pc' = "approval"
            /\ UNCHANGED << exit_code, failure >>
    /\ UNCHANGED << argVars, logVars, setupVars, cycles, stage, queue_item,
                    build_info, jenkinsVars, ghostVars, i, content,
                    job_exists, release, entered >>

\* Entering wait_for_build: start_time is taken, build_info is None.
EnterWait ==
    /\ pc' = "wfb_start"
    /\ elapsed' = 0
    /\ cycles' = 0
    /\ build_number' = 0
    /\ build_info' = NoInfo

\* One iteration of the approval loop: get_build_info raises, the build is
\* over (break), it is paused (handle_input Proceed, break), or sleep(5).
Approval_Poll ==
    /\ pc = "approval"
    /\ \E fault \in BOOLEAN :
         LET info == get_build_info(build_number) IN
         IF fault
         THEN /\ Abort("Exception", "build not found")
              /\ cycles' = 0
              /\ build_info' = NoInfo
              /\ build_number' = 0
              /\ UNCHANGED << elapsed, builds, resolved >>
         ELSE IF ~still_building(info)
         THEN /\ EnterWait
              /\ UNCHANGED << builds, resolved, exit_code, failure >>
         ELSE IF input_action(info)
         THEN /\ builds' = [ builds EXCEPT ![build_number].status = "RUNNING" ]
              /\ resolved' = Append(resolved, build_number)
              /\ EnterWait
              /\ UNCHANGED << exit_code, failure >>
         ELSE /\ build_info' = info
              /\ cycles' = Bump(cycles)
              /\ UNCHANGED << pc, elapsed, build_number, builds, resolved,
                              exit_code, failure >>
    /\ UNCHANGED << argVars, logVars, setupVars, stage, queue_item, queue, prompts,
                    teardowns, job_configs, rewrites, i, content, job_exists,
                    release, entered >>

\* The Green stage is complete; orchestrate_blue_green_flow and the try
\* block of main() return.
Green_Complete ==
    /\ pc = "green_done"
    /\ release' = [ release EXCEPT !.state = "GreenDeployed",
                                   !.activeColor = "Green" ]
    /\ pc' = after_try("return")
    /\ exit_code' = exit_status("return")
    /\ UNCHANGED << argVars, logVars, setupVars, waitVars, flowVars, jenkinsVars,
                    ghostVars, i, content, job_exists, entered, failure >>

\* ------------------------------------------------------ the Jenkins server
Observed ==
    pc \notin {"finally", "exited"}

\* A queued item is scheduled: it leaves the queue as a new running build.
Jenkins_Schedule ==
    /\ Observed
    /\ \E t \in 1..Len(queue) :
         /\ queue[t].at = "WAITING"
         /\ queue' = [ queue EXCEPT ![t].at = "LEFT" ]
         /\ builds' = Append(builds, [ status |-> "RUNNING", ticket |-> t,
                                       pauses |-> 0 ])
    /\ UNCHANGED << argVars, logVars, setupVars, waitVars, flowVars, ghostVars, pc, i,
                    content, exit_code, job_exists, release, entered, failure >>

\* Jenkins stops answering for a queue item: looking it up answers 404
\* (jenkins.NotFoundException) from now on.  wait_for_build expects this
\* both after the build has started (the latest-build fallback) and before
\* any build exists (the KeyError/TypeError branch), so an item may be lost
\* whether or not it has left the queue.
Jenkins_Discard ==
    /\ Observed
    /\ \E t \in 1..Len(queue) :
         /\ queue[t].found
         /\ queue' = [ queue EXCEPT ![t].found = FALSE ]
    /\ UNCHANGED << argVars, logVars, setupVars, waitVars, flowVars, ghostVars, pc, i,
                    content, exit_code, builds, job_exists, release, entered,
                    failure >>

\* A running build reaches an input step.
Jenkins_Pause ==
    /\ Observed
    /\ \E b \in 1..Len(builds) :
         /\ builds[b].status = "RUNNING"
         /\ builds[b].pauses < MaxPauses
         /\ builds' = [ builds EXCEPT ![b].status = "PAUSED",
                                      ![b].pauses = @ + 1 ]
    /\ UNCHANGED << argVars, logVars, setupVars, waitVars, flowVars, ghostVars, pc, i,
                    content, exit_code, queue, job_exists, release, entered,
                    failure >>

\* A running build ends.
Jenkins_Finish ==
    /\ Observed
    /\ \E b \in 1..Len(builds), r \in Terminal :
         /\ builds[b].status = "RUNNING"
         /\ builds' = [ builds EXCEPT ![b].status = r ]
    /\ UNCHANGED << argVars, logVars, setupVars, waitVars, flowVars, ghostVars, pc, i,
                    content, exit_code, queue, job_exists, release, entered,
                    failure >>

\* ----------------------------------------------------------- specification
Next ==
    \/ Main
    \/ CleanupOnly
    \/ Finally
    \/ Setup_Command
    \/ Setup_ServiceType
    \/ Setup_Poll
    \/ Setup_Timeout
    \/ Configure_Url
    \/ Configure_Connect
    \/ Configure_Job
    \/ Blue_Trigger
    \/ Wfb_Start
    \/ Wfb_StartTimeout
    \/ Wfb_Running
    \/ Wfb_Sleep
    \/ Blue_Complete
    \/ Rewrite
    \/ Push_Ack
    \/ Green_Trigger
    \/ Green_Sample
    \/ Approval_Poll
    \/ Green_Complete
    \/ Jenkins_Schedule
    \/ Jenkins_Discard
    \/ Jenkins_Pause
    \/ Jenkins_Finish

Spec ==
    Init /\ [][Next]_vars

\* ================================================================== claims
Asked(p) ==
    \E k \in 1..Len(prompts) : prompts[k] = p

Ended ==
    pc = "exited"

\* C1: every run that is not in cleanup-only mode offers the cleanup
\* confirmation before the process terminates, whether the phases completed
\* or a failure cut them short.
C1_PromptBeforeExit ==
    (Ended /\ ~cleanup_only) => Asked("cleanup")

C1_Witness ==
    Ended /\ ~cleanup_only /\ failure = "build failed" /\ Asked("cleanup")

FullSuccess ==
    ~cleanup_only /\ release.state = "GreenDeployed"

CleanupOnlySuccess ==
    cleanup_only /\ teardowns = 1

\* C2: the exit code is 0 exactly when the run ended in full success or in
\* a successful cleanup-only run, and 1 after any fatal failure.
C2_ExitCode ==
    Ended =>
      /\ exit_code \in {0, 1}
      /\ (exit_code = 0) <=> (FullSuccess \/ CleanupOnlySuccess)
      /\ (failure # "none") => (exit_code = 1)

C2_Witness ==
    Ended /\ exit_code = 0 /\ FullSuccess /\ failure = "none"

\* The readiness loop of setup_infrastructure ended without a ready pod.
PodTimedOut ==
    pc = "setup_poll" /\ elapsed >= PodTimeout /\ ~pod_is_ready

\* C3: once a phase has failed no action of a later phase is initiated (no
\* job configuration, no build trigger, no rewrite, no phase entered) and
\* control goes to the cleanup decision; a readiness timeout exits with
\* code 1 without configure_jenkins or orchestrate_blue_green_flow.
C3_FailureEndsSequence ==
    /\ [](failure # "none" => (pc \in {"finally", "exited"} /\ exit_code = 1))
    /\ [](failure = "readiness timeout" =>
             entered \cap {"configure", "orchestrate"} = {})
    /\ [][ (failure = "none" /\ failure' # "none" /\ ~cleanup_only)
             => pc' = "finally" ]_vars
    /\ [][ failure # "none" =>
             /\ job_configs' = job_configs
             /\ Len(queue') = Len(queue)
             /\ rewrites' = rewrites
             /\ (entered' \ entered) \subseteq {"cleanup"}
             /\ pc' = "exited" ]_vars
    /\ [][ PodTimedOut =>
             /\ failure' = "readiness timeout"
             /\ exit_code' = 1
             /\ pc' = "finally" ]_vars

C3_Witness ==
    /\ Ended /\ failure = "readiness timeout" /\ exit_code = 1
    /\ entered = {"setup"} /\ job_configs = 0 /\ queue = << >>

SkipSetupMode ==
    skip_setup /\ ~cleanup_only

\* C4 (as stated): in skip-setup mode neither Provision nor Configure-CI is
\* executed.
C4_SkipsProvisionAndConfigure ==
    SkipSetupMode =>
      /\ "setup" \notin entered
      /\ "configure" \notin entered
      /\ job_configs = 0

\* C4 (amended): in skip-setup mode Provision is not executed, and
\* Configure-CI still is: no build is triggered before configure_jenkins
\* has configured the job.
C4_SkipsProvisionOnly ==
    SkipSetupMode =>
      /\ "setup" \notin entered
      /\ cmd = 1
      /\ (pc # "main") => ("configure" \in entered)
      /\ (Len(queue) > 0) => (job_configs = 1)

C4_Witness ==
    SkipSetupMode /\ stage = "blue" /\ Len(queue) = 1 /\ job_configs = 1

\* In a cleanup-only run nothing but the teardown is touched.
CleanupOnlyFrame ==
    /\ entered \subseteq {"cleanup"}
    /\ cmd = 1
    /\ job_configs = 0
    /\ queue = << >>
    /\ rewrites = 0
    /\ content = << >>
    /\ prompts = << >>
    /\ release = Uninitialized

\* C5 (as stated): a cleanup-only run performs the teardown and exits 0
\* without touching any other phase and without any operator prompt.
C5_CleanupOnlyExitsZero ==
    cleanup_only =>
      /\ CleanupOnlyFrame
      /\ Ended => (teardowns = 1 /\ exit_code = 0)

\* C5 (amended): a cleanup-only run touches no other phase and prompts
\* nobody; it performs the teardown and exits 0, unless the minikube
\* executable is missing: then no teardown runs and it exits 1.
C5_CleanupOnlyTeardown ==
    cleanup_only =>
      /\ CleanupOnlyFrame
      /\ Ended => IF missing = "minikube"
                  THEN teardowns = 0 /\ exit_code = 1
                  ELSE teardowns = 1 /\ exit_code = 0

C5_Witness ==
    cleanup_only /\ Ended /\ teardowns = 1 /\ exit_code = 0

\* The build the current queue ticket became has ended in SUCCESS.
OwnBuildSucceeded ==
    \E b \in 1..Len(builds) :
        builds[b].ticket = queue_item /\ builds[b].status = "SUCCESS"

\* C6: GreenDeployed is reached only if BlueDeployed was reached before and
\* the build started by the second trigger itself ended in SUCCESS.
C6_GreenNeedsOwnBuild ==
    release.state = "GreenDeployed" =>
      /\ release.blueVersionLabel = BlueLabel
      /\ stage = "green" /\ queue_item = 2
      /\ OwnBuildSucceeded

\* C7: the orchestrator never goes on polling the running status of a build
\* that has an outstanding input request it has been shown: the pause is
\* resolved before polling continues.
C7_PauseResolvedBeforePolling ==
    ~ /\ pc = "wfb_sleep"
      /\ build_info.building /\ build_info.input
      /\ builds[build_number].status = "PAUSED"

\* C9: the version-label substitution is idempotent: applied to the text it
\* has written, it yields that text again.
C9_RewriteIdempotent ==
    rewrites > 0 => re_sub(content) = content

\* Context of the operator prompt answered by a step.
PushContext ==
    /\ release.state = "GreenPending"
    /\ rewrites = 1
    /\ stage = "blue"
    /\ Len(queue) = 1
    /\ failure = "none"

CleanupContext ==
    /\ pc = "finally"
    /\ ~cleanup_only

\* C10: the process blocks on the operator at two points only: the push
\* acknowledgment, after the Blue stage succeeded and the artifact was
\* rewritten and before the Green trigger, and the cleanup confirmation,
\* after the phase sequence ended; Green is never triggered before the push
\* acknowledgment.
C10_TwoHumanGates ==
    /\ [](prompts \in { << >>, << "push" >>, << "cleanup" >>,
                        << "push", "cleanup" >> })
    /\ [](Len(queue) >= 2 => Asked("push"))
    /\ [](Asked("cleanup") => Ended)
    /\ [][ prompts' # prompts =>
             \/ /\ prompts' = Append(prompts, "push")
                /\ PushContext
                /\ Len(queue') = 1
             \/ /\ prompts' = Append(prompts, "cleanup")
                /\ CleanupContext
                /\ pc' = "exited" ]_vars

C10_Witness ==
    /\ Ended /\ prompts = << "push", "cleanup" >>
    /\ Len(queue) = 2 /\ release.state = "GreenDeployed"

\* The build a ticket became has not ended, or the ticket is still queued.
Active(t) ==
    \/ queue[t].at = "WAITING"
    \/ \E b \in 1..Len(builds) :
         builds[b].ticket = t /\ builds[b].status \in {"RUNNING", "PAUSED"}

TicketSucceeded(t) ==
    \E b \in 1..Len(builds) :
        builds[b].ticket = t /\ builds[b].status = "SUCCESS"

\* C11: the Green build is triggered only after the build started by the
\* Blue trigger has itself ended in SUCCESS, and at no time are two builds
\* of this run queued or running together.
C11_NoOverlappingTriggers ==
    /\ (Len(queue) >= 2) => TicketSucceeded(1)
    /\ Cardinality({ t \in 1..Len(queue) : Active(t) }) <= 1

\* The next step of the process calls get_build_info.
PollsBuild ==
    pc \in {"wfb_running", "approval"}

StartResolved(t) ==
    \E k \in 1..Len(started) : started[k] = t

\* C12: the status of a build is never polled before the start loop of
\* wait_for_build has resolved the ticket of its trigger to a build number,
\* in the approval loop of the Green stage as well.
C12_PollAfterStart ==
    PollsBuild => StartResolved(queue_item)

\* C13: counting the time spent sleeping, a bounded wait whose condition
\* never becomes true reports its timeout at or after T and never later
\* than T + I: T = 420, I = 10 for the pod readiness poll, T = 300, I = 5
\* for the start wait of wait_for_build.
C13_TimeoutWithinOneInterval ==
    /\ (failure = "readiness timeout") =>
          (elapsed \in PodTimeout..(PodTimeout + PodInterval))
    /\ (failure = "start timeout") =>
          (elapsed \in StartTimeout..(StartTimeout + StartInterval))

\* Positions where a wait evaluates its condition: the readiness loop, the
\* start loop, the completion loop and the approval loop.
WaitPoints ==
    {"setup_poll", "wfb_start", "wfb_running", "approval"}

\* C14: every wait point evaluates its condition for the first time before
\* its first sleep: when control arrives at the first evaluation of a wait,
\* the wait has not slept.
C14_FirstCheckBeforeSleep ==
    [][ (pc' \in WaitPoints /\ pc \notin {pc', "wfb_sleep"}) =>
            (elapsed' = 0 /\ cycles' = 0) ]_vars

\* C15: a 'not found / not available yet' answer of the external system
\* (no pod yet, pod status not populated, queue item not found, no last
\* build, build record not found) is taken as pending and the wait goes on:
\* such an answer never ends the run.
C15_TransientIsPending ==
    failure # "build not found"

\* The completion loop is about to read a build that ended in FAILURE.
ReadsFailedBuild ==
    /\ pc = "wfb_running"
    /\ build_number # 0
    /\ builds[build_number].status = "FAILURE"

\* C16: a build result other than SUCCESS read by wait_for_build is fatal:
\* no further build is triggered, the run exits with code 1, and the release
\* state stays where it was: Uninitialized with the artifact unrewritten
\* after a failed Blue build, GreenPending after a failed Green build.
C16_BuildFailureIsFatal ==
    /\ [][ (ReadsFailedBuild /\ pc' # pc) =>
             /\ pc' = "finally"
             /\ exit_code' = 1
             /\ failure' \in {"build failed", "build not found"}
             /\ Len(queue') = Len(queue)
             /\ release' = release
             /\ content' = content ]_vars
    /\ [](failure = "build failed" =>
             /\ pc \in {"finally", "exited"}
             /\ exit_code = 1
             /\ (stage = "blue") =>
                   /\ release = Uninitialized
                   /\ rewrites = 0 /\ content = << >>
                   /\ Len(queue) = 1
             /\ (stage = "green") =>
                   /\ release.state = "GreenPending"
                   /\ release.activeColor = "Blue"
                   /\ Len(queue) = 2)
    /\ [][ failure = "build failed" =>
             /\ Len(queue') = Len(queue)
             /\ release' = release
             /\ content' = content ]_vars

C16_Witness ==
    /\ Ended /\ failure = "build failed" /\ exit_code = 1
    /\ stage = "green" /\ release.state = "GreenPending" /\ Len(queue) = 2

\* The build the completion loop watches has not ended.
WatchedBuilding ==
    /\ pc \in {"wfb_running", "wfb_sleep"}
    /\ build_number # 0
    /\ builds[build_number].status \in {"RUNNING", "PAUSED"}

Returned(t) ==
    \E k \in 1..Len(returned) : returned[k] = t

\* C17: wait_for_build returns once per call, and only when the build it
\* watches has stopped with result SUCCESS; while that build is building
\* the wait neither returns nor times out; once it has returned for a
\* ticket it polls no more for it.
C17_ReturnsOnceAfterSuccess ==
    /\ [][ returned' # returned =>
             /\ pc = "wfb_running"
             /\ builds[build_number].status = "SUCCESS"
             /\ returned' = Append(returned, queue_item)
             /\ pc' = wfb_return(stage) ]_vars
    /\ [][ WatchedBuilding =>
             /\ returned' = returned
             /\ pc' \notin {"blue_done", "green_done"}
             /\ failure' \notin {"build failed", "start timeout"} ]_vars
    /\ [](returned \in { << >>, << 1 >>, << 1, 2 >> })
    /\ [](Returned(queue_item) =>
             pc \notin {"wfb_start", "wfb_running", "wfb_sleep"})

C17_Witness ==
    /\ pc = "blue_done" /\ returned = << 1 >>
    /\ queue[1].found /\ TicketSucceeded(1)

\* C18: the connection to the Jenkins API is attempted at most max_retries
\* times; the first success ends the loop and the job is configured; each
\* of the first max_retries - 1 failures is followed by a sleep of 10s;
\* the last failure exits with code 1 without another sleep and without
\* creating or reconfiguring the job.
C18_ConnectRetries ==
    /\ [](pc = "configure_connect" =>
             /\ i \in 0..(max_retries - 1)
             /\ elapsed = i * ConnectDelay)
    /\ [](failure = "jenkins connection" =>
             /\ i = max_retries - 1
             /\ elapsed = (max_retries - 1) * ConnectDelay
             /\ exit_code = 1
             /\ job_configs = 0
             /\ pc \in {"finally", "exited"})
    /\ [][ (pc = "configure_connect" /\ pc' = "configure_job") =>
             (i' = i /\ elapsed' = elapsed /\ failure' = "none") ]_vars
    /\ [][ job_configs' # job_configs => pc = "configure_job" ]_vars

C18_Witness ==
    /\ Ended /\ failure = "jenkins connection" /\ exit_code = 1
    /\ i = max_retries - 1 /\ job_configs = 0

\* C19: the approval gate is resolved at most once in a run, with Proceed
\* (the build resumes), and only on a build that was building with an
\* outstanding input request when it was inspected; the Blue stage never
\* resolves a gate.
C19_ApprovalOnce ==
    /\ [](Len(resolved) <= 1)
    /\ [](stage # "green" => resolved = << >>)
    /\ [][ resolved' # resolved =>
             /\ pc = "approval"
             /\ stage = "green"
             /\ builds[build_number].status = "PAUSED"
             /\ resolved' = Append(resolved, build_number)
             /\ builds'[build_number].status = "RUNNING" ]_vars

C19_Witness ==
    Len(resolved) = 1 /\ stage = "green" /\ release.state = "GreenDeployed"

\* C20: the cluster deletion runs at most once per run, and only in
\* cleanup-only mode or after the operator answered 'y' to the cleanup
\* prompt, on failure paths too; a deletion command that fails leaves the
\* exit status of the run as it was.
C20_TeardownNeedsConfirmation ==
    /\ [](teardowns <= 1)
    /\ [](teardowns = 1 => (cleanup_only \/ answer = "y"))
    /\ []((~cleanup_only /\ "cleanup" \in entered) => answer = "y")
    /\ [][ teardowns' # teardowns =>
             /\ teardowns' = 1
             /\ delete_rc' \in {0, 1}
             /\ failure' = failure
             /\ exit_code' = IF cleanup_only THEN 0 ELSE exit_code ]_vars

C20_Witness ==
    /\ Ended /\ release.state = "GreenDeployed" /\ answer = "y"
    /\ teardowns = 1 /\ delete_rc = 1 /\ exit_code = 0

\* ------------------------------------------------ the scenario of claim C8
\* External systems behave: every command succeeds, the pod becomes ready
\* and Jenkins answers in time, no queue item is lost, builds leave the
\* queue before the start wait runs out.  The Blue build (ticket 1) never
\* pauses and succeeds once wait_for_build has seen it running twice; the
\* Green build (ticket 2) pauses once and succeeds after the pause is
\* resolved.  When Green leaves the queue and when it pauses is free.
ScenInit ==
    /\ Init
    /\ ~cleanup_only
    /\ missing = "none"
    /\ builds = << >>

Became(b, st) ==
    /\ builds'[b].status = st
    /\ (b > Len(builds) \/ builds[b].status # st)

ScenStep ==
    /\ failure' = "none"
    /\ (pc' = "setup_poll") => (elapsed' < PodTimeout)
    /\ (pc' = "wfb_start") => (elapsed' < StartTimeout)
    /\ (pc' = "wfb_sleep" /\ stage' = "blue") => (cycles' < 2)
    /\ \A b \in 1..Len(builds') :
         /\ builds'[b].status # "FAILURE"
         /\ (builds'[b].ticket = 1) => (builds'[b].status # "PAUSED")
         /\ (builds'[b].ticket = 1 /\ Became(b, "SUCCESS")) =>
              (pc = "wfb_running" /\ stage = "blue" /\ cycles = 2)
         /\ (builds'[b].ticket = 2) => (builds'[b].pauses <= 1)
         /\ (builds'[b].ticket = 2 /\ Became(b, "SUCCESS")) =>
              (builds[b].pauses = 1)

ScenProgram ==
    /\ \/ Main
       \/ Finally
       \/ Setup_Command
       \/ Setup_ServiceType
       \/ Setup_Poll
       \/ Configure_Url
       \/ Configure_Connect
       \/ Configure_Job
       \/ Blue_Trigger
       \/ Wfb_Start
       \/ Wfb_Running
       \/ Wfb_Sleep
       \/ Blue_Complete
       \/ Rewrite
       \/ Push_Ack
       \/ Green_Trigger
       \/ Green_Sample
       \/ Approval_Poll
       \/ Green_Complete
    /\ ScenStep

ScenJenkins ==
    /\ \/ Jenkins_Schedule
       \/ Jenkins_Pause
       \/ Jenkins_Finish
    /\ ScenStep

\* The process keeps running and the operator answers its prompts; Jenkins
\* keeps scheduling, pausing and finishing builds as the scenario says.
ScenarioSpec ==
    /\ ScenInit
    /\ [][ScenProgram \/ ScenJenkins]_vars
    /\ WF_vars(ScenProgram)
    /\ WF_vars(ScenJenkins)

\* C8: in the scenario the run eventually completes the full sequence with
\* release state Green / "1.0 (BLUE)" / "2.0 (GREEN)", whenever the Green
\* build leaves the queue and whenever it reaches its pause.
C8_ScenarioCompletes ==
    <>(release = [ state |-> "GreenDeployed", activeColor |-> "Green",
                   blueVersionLabel |-> BlueLabel,
                   greenVersionLabel |-> GreenLabel ])

====
